---- MODULE Spec2Model ----
(***************************************************************************)
(* Password strength analyser (src/backend.cpp): the trie of weak tokens,  *)
(* the substring matchers (brute force, KMP, Rabin-Karp), analyzePassword  *)
(* and the POST /analyze handler that calls it.  The file holds two         *)
(* revisions of the unit: lines 207-395 (brute force and KMP) are the one  *)
(* modelled as the running program; of lines 1-206 the matcher it alone    *)
(* has, rabinKarpMatch, is modelled too.                                   *)
(*                                                                         *)
(* A std::string is a sequence of character codes (ASCII, 1..127); source  *)
(* positions are 0-based, sequence positions 1-based, so text[i] of the    *)
(* source is text[i + 1] here.                                             *)
(***************************************************************************)
EXTENDS Integers, Sequences, FiniteSets

VARIABLES
    call,       \* call[w]: the handler invocation worker thread w is running (its locals)
    served,     \* number of POST /analyze requests taken so far
    log,        \* the responses sent so far, in the order they were sent
    crashed,    \* the process has faulted (an access outside a TrieNode's children array)
    text,       \* matcher harness: the text argument
    pattern,    \* matcher harness: the pattern argument
    mpc,        \* matcher harness: which matcher runs next
    verdict,    \* matcher harness: [bf, kmp, rk] verdicts returned so far
    tword,      \* trie harness: the word looked up
    tres        \* trie harness: what Trie::search returned ("none" before the call)

vars == <<call, served, log, crashed, text, pattern, mpc, verdict, tword, tres>>

(***************************************************************************)
(* Bounds of the model.                                                    *)
(***************************************************************************)
MaxText == 4        \* longest text handed to the matchers
MaxPat == 3         \* longest pattern handed to the matchers
MaxParts == 2       \* passwords of the analysis runs are built of at most MaxParts pieces
MaxRequests == 3    \* requests a server run takes
NumWorkers == 2     \* handler threads of a server run

(***************************************************************************)
(* Characters and strings.                                                 *)
(***************************************************************************)
isupper(c) == c \in 65..90
islower(c) == c \in 97..122
isdigit(c) == c \in 48..57

\* ::tolower in the "C" locale
tolower(c) == IF isupper(c) THEN c + 32 ELSE c

\* std::transform(lowerPass.begin(), lowerPass.end(), lowerPass.begin(), ::tolower)
toLowerString(s) == [i \in 1..Len(s) |-> tolower(s[i])]

\* const std::string::operator[](pos): the character, or NUL at pos == size()
charAt(s, pos) == IF pos < Len(s) THEN s[pos + 1] ELSE 0

\* all strings over alphabet A of length at most n
RECURSIVE StringsUpTo(_, _)
StringsUpTo(A, n) ==
    IF n = 0 THEN {<<>>}
    ELSE LET shorter == StringsUpTo(A, n - 1)
         IN  shorter \cup {Append(s, c) : s \in {x \in shorter : Len(x) = n - 1}, c \in A}

\* pattern occurs in text as a contiguous substring (the meaning of "matches")
Occurs(txt, pat) ==
    \E i \in 0..(Len(txt) - Len(pat)) : SubSeq(txt, i + 1, i + Len(pat)) = pat

(***************************************************************************)
(* bruteForceMatch                                                         *)
(***************************************************************************)
\* while (j < m && text[i + j] == pattern[j]) j++;
RECURSIVE bfCompare(_, _, _, _)
bfCompare(txt, pat, i, j) ==
    IF j < Len(pat) /\ txt[i + j + 1] = pat[j + 1]
    THEN bfCompare(txt, pat, i, j + 1)
    ELSE j

\* for (int i = 0; i <= n - m; i++) { ...; if (j == m) return true; } return false;
RECURSIVE bfScan(_, _, _)
bfScan(txt, pat, i) ==
    IF i <= Len(txt) - Len(pat)
    THEN IF bfCompare(txt, pat, i, 0) = Len(pat) THEN TRUE ELSE bfScan(txt, pat, i + 1)
    ELSE FALSE

bruteForceMatch(txt, pat) == bfScan(txt, pat, 0)

(***************************************************************************)
(* KMPMatch and computeLPS                                                 *)
(***************************************************************************)
\* for (int i = 1, len = 0; i < m;) { ... }
RECURSIVE lpsLoop(_, _, _, _)
lpsLoop(pat, lps, i, len) ==
    IF ~(i < Len(pat)) THEN lps
    ELSE IF pat[i + 1] = pat[len + 1]
         THEN lpsLoop(pat, [lps EXCEPT ![i + 1] = len + 1], i + 1, len + 1)
    ELSE IF len # 0
         THEN lpsLoop(pat, lps, i, lps[len])
    ELSE lpsLoop(pat, [lps EXCEPT ![i + 1] = 0], i + 1, len)

\* a failure table that never falls back to a proper border
computeLPS_noBorders(pat) == [k \in 1..Len(pat) |-> 0]

computeLPS(pat) == lpsLoop(pat, [k \in 1..Len(pat) |-> 0], 1, 0)

\* while (i < text.length()) { ... } return false;
RECURSIVE kmpLoop(_, _, _, _, _)
kmpLoop(txt, pat, lps, i, j) ==
    IF ~(i < Len(txt)) THEN FALSE
    ELSE LET hit == txt[i + 1] = charAt(pat, j)
             i1  == IF hit THEN i + 1 ELSE i
             j1  == IF hit THEN j + 1 ELSE j
         IN  IF j1 = Len(pat) THEN TRUE
             ELSE IF i1 < Len(txt) /\ txt[i1 + 1] # charAt(pat, j1)
                  THEN IF j1 # 0
                       THEN kmpLoop(txt, pat, lps, i1, lps[j1])
                       ELSE kmpLoop(txt, pat, lps, i1 + 1, j1)
             ELSE kmpLoop(txt, pat, lps, i1, j1)

KMPMatch(txt, pat) == kmpLoop(txt, pat, computeLPS(pat), 0, 0)

(***************************************************************************)
(* rabinKarpMatch                                                          *)
(***************************************************************************)
base == 256
mod == 101

\* the % of C++ on int: the remainder has the sign of the dividend
cRem(a, b) == IF a >= 0 THEN a % b ELSE 0 - ((0 - a) % b)

\* for (int i = 0; i < m - 1; i++) h = (h * base) % mod;
RECURSIVE rkHigh(_, _, _)
rkHigh(m, i, h) == IF i < m - 1 THEN rkHigh(m, i + 1, cRem(h * base, mod)) ELSE h

\* for (int i = 0; i < m; i++) hash = (base * hash + s[i]) % mod;
RECURSIVE rkHash(_, _, _, _)
rkHash(s, m, i, hash) ==
    IF i < m THEN rkHash(s, m, i + 1, cRem(base * hash + s[i + 1], mod)) ELSE hash

\* tHash = (base * (tHash - text[i] * h) + text[i + m]) % mod; if (tHash < 0) tHash += mod;
rkRoll(txt, m, h, tHash, i) ==
    LET t == cRem(base * (tHash - txt[i + 1] * h) + txt[i + m + 1], mod)
    IN  IF t < 0 THEN t + mod ELSE t

\* for (int i = 0; i <= n - m; i++) { ... } return false;
RECURSIVE rkScan(_, _, _, _, _, _)
rkScan(txt, pat, h, pHash, tHash, i) ==
    LET n == Len(txt)
        m == Len(pat)
    IN  IF ~(i <= n - m) THEN FALSE
        ELSE IF pHash = tHash /\ SubSeq(txt, i + 1, i + m) = pat THEN TRUE
        ELSE IF i < n - m
             THEN rkScan(txt, pat, h, pHash, rkRoll(txt, m, h, tHash, i), i + 1)
        ELSE rkScan(txt, pat, h, pHash, tHash, i + 1)

rabinKarpMatch(txt, pat) ==
    LET n == Len(txt)
        m == Len(pat)
    IN  IF m > n THEN FALSE
        ELSE rkScan(txt, pat, rkHigh(m, 0, 1),
                    rkHash(pat, m, 0, 0), rkHash(txt, m, 0, 0), 0)

(***************************************************************************)
(* TrieNode and Trie.  A trie is the sequence of its nodes: node 1 is the  *)
(* root, a child pointer is a node's position, 0 is nullptr.               *)
(*                                                                         *)
(* children[idx] with idx outside 0..25 addresses memory outside the       *)
(* node: undefined behaviour.  The word read there is not the trie's, so   *)
(* the walk leaves the trie: a later dereference faults or goes on through *)
(* memory the model does not hold.  insert then either faults or returns   *)
(* with the nodes it had linked so far (its later writes land outside the  *)
(* trie); search faults or returns whatever byte it took for isEnd.        *)
(***************************************************************************)
\* TrieNode(): isEnd = false, the 26 children nullptr
TrieNode == [children |-> [i \in 0..25 |-> 0], isEnd |-> FALSE]

\* Trie(): root = new TrieNode()
Trie == <<TrieNode>>

\* int idx = c - 'a';
childIndex(c) == c - 97

inBounds(idx) == idx \in 0..25

\* the loop and the tail of Trie::insert from node curr, at character k of word
RECURSIVE insertWalk(_, _, _, _)
insertWalk(t, word, k, curr) ==
    IF k > Len(word)
    THEN {[crash |-> FALSE, trie |-> [t EXCEPT ![curr].isEnd = TRUE]]}
    ELSE LET idx == childIndex(word[k])
         IN  IF ~inBounds(idx)
             THEN {[crash |-> FALSE, trie |-> t], [crash |-> TRUE, trie |-> t]}
             ELSE IF t[curr].children[idx] = 0
                  THEN insertWalk(Append([t EXCEPT ![curr].children[idx] = Len(t) + 1],
                                         TrieNode),
                                  word, k + 1, Len(t) + 1)
                  ELSE insertWalk(t, word, k + 1, t[curr].children[idx])

\* Trie::insert: the outcomes of t.insert(word)
insert(t, word) == insertWalk(t, word, 1, 1)

\* the loop and the tail of Trie::search from node curr, at character k of word
RECURSIVE searchWalk(_, _, _, _)
searchWalk(t, word, k, curr) ==
    IF k > Len(word)
    THEN {IF t[curr].isEnd THEN "true" ELSE "false"}
    ELSE LET idx == childIndex(word[k])
         IN  IF ~inBounds(idx)
             THEN {"true", "false", "crash"}
             ELSE IF t[curr].children[idx] = 0
                  THEN {"false"}
                  ELSE searchWalk(t, word, k + 1, t[curr].children[idx])

\* Trie::search: the outcomes of t.search(word)
search(t, word) == searchWalk(t, word, 1, 1)

\* the child indices a walk over word computes: up to the first one outside the array
RECURSIVE walkIndices(_, _)
walkIndices(word, k) ==
    IF k > Len(word) THEN {}
    ELSE LET idx == childIndex(word[k])
         IN  IF inBounds(idx) THEN {idx} \cup walkIndices(word, k + 1) ELSE {idx}

(***************************************************************************)
(* analyzePassword                                                         *)
(***************************************************************************)
\* vector<string> weakPatterns = {"password", "admin", "qwerty", "1234", "1111"};
weakPatterns ==
    << <<112, 97, 115, 115, 119, 111, 114, 100>>,
       <<97, 100, 109, 105, 110>>,
       <<113, 119, 101, 114, 116, 121>>,
       <<49, 50, 51, 52>>,
       <<49, 49, 49, 49>> >>

\* the suggestion literals, in the order of the checks: "Use at least 8 characters. ",
\* "Add uppercase letters. ", "Add lowercase letters. ", "Add numbers. ",
\* "Add symbols (#, @, !). ", "Avoid repeating characters. ",
\* "Remove common weak patterns like '1234'. "
suggestionText ==
    << <<85, 115, 101, 32, 97, 116, 32, 108, 101, 97, 115, 116, 32, 56, 32, 99, 104, 97,
         114, 97, 99, 116, 101, 114, 115, 46, 32>>,
       <<65, 100, 100, 32, 117, 112, 112, 101, 114, 99, 97, 115, 101, 32, 108, 101, 116,
         116, 101, 114, 115, 46, 32>>,
       <<65, 100, 100, 32, 108, 111, 119, 101, 114, 99, 97, 115, 101, 32, 108, 101, 116,
         116, 101, 114, 115, 46, 32>>,
       <<65, 100, 100, 32, 110, 117, 109, 98, 101, 114, 115, 46, 32>>,
       <<65, 100, 100, 32, 115, 121, 109, 98, 111, 108, 115, 32, 40, 35, 44, 32, 64, 44,
         32, 33, 41, 46, 32>>,
       <<65, 118, 111, 105, 100, 32, 114, 101, 112, 101, 97, 116, 105, 110, 103, 32, 99,
         104, 97, 114, 97, 99, 116, 101, 114, 115, 46, 32>>,
       <<82, 101, 109, 111, 118, 101, 32, 99, 111, 109, 109, 111, 110, 32, 119, 101, 97,
         107, 32, 112, 97, 116, 116, 101, 114, 110, 115, 32, 108, 105, 107, 101, 32, 39,
         49, 50, 51, 52, 39, 46, 32>> >>

\* the locals of a call that has not started
IdleFrame ==
    [pc |-> "idle", pass |-> <<>>, trie |-> <<>>, k |-> 0, score |-> 0,
     suggestion |-> <<>>, up |-> FALSE, low |-> FALSE, dig |-> FALSE, sym |-> FALSE,
     hasWeakPattern |-> FALSE, strength |-> "", idx |-> {}]

\* locals that keep what the previous call on this thread left in them
staleFrame(prev, p) ==
    [prev EXCEPT !.pc = "insert", !.pass = p, !.trie = Trie, !.k = 1, !.idx = {}]

\* entry of analyzePassword(pass): Trie trie; int score = 0; string suggestion = "";
\* bool up=false, low=false, dig=false, sym=false; bool hasWeakPattern = false;
\* prev is what the thread's previous call left behind: nothing of it is read
newFrame(prev, p) ==
    [pc |-> "insert", pass |-> p, trie |-> Trie, k |-> 1, score |-> 0,
     suggestion |-> <<>>, up |-> FALSE, low |-> FALSE, dig |-> FALSE, sym |-> FALSE,
     hasWeakPattern |-> FALSE, strength |-> "", idx |-> {}]

\* a length check that gives a long password one point only
lengthCheck_onePoint(f) ==
    IF Len(f.pass) >= 8 THEN [f EXCEPT !.score = @ + 1]
    ELSE [f EXCEPT !.suggestion = @ \o suggestionText[1]]

\* if (pass.length() >= 12) score += 2; else if (pass.length() >= 8) score += 1;
\* else suggestion += "Use at least 8 characters. ";
lengthCheck(f) ==
    IF Len(f.pass) >= 12 THEN [f EXCEPT !.score = @ + 2]
    ELSE IF Len(f.pass) >= 8 THEN [f EXCEPT !.score = @ + 1]
    ELSE [f EXCEPT !.suggestion = @ \o suggestionText[1]]

\* for (char c : pass) { if (isupper(c)) up=true; else if (islower(c)) low=true;
\*                       else if (isdigit(c)) dig=true; else sym=true; }
RECURSIVE varietyScan(_, _)
varietyScan(f, i) ==
    IF i > Len(f.pass) THEN f
    ELSE LET c == f.pass[i]
         IN  varietyScan(IF isupper(c) THEN [f EXCEPT !.up = TRUE]
                         ELSE IF islower(c) THEN [f EXCEPT !.low = TRUE]
                         ELSE IF isdigit(c) THEN [f EXCEPT !.dig = TRUE]
                         ELSE [f EXCEPT !.sym = TRUE],
                         i + 1)

\* if (flag) score++; else suggestion += text;
flagCheck(f, flag, n) ==
    IF flag THEN [f EXCEPT !.score = @ + 1]
    ELSE [f EXCEPT !.suggestion = @ \o suggestionText[n]]

\* the digit check run ahead of the lowercase check
varietyChecks_swapped(f) ==
    LET f1 == flagCheck(f, f.up, 2)
        f2 == flagCheck(f1, f1.dig, 4)
        f3 == flagCheck(f2, f2.low, 3)
    IN  flagCheck(f3, f3.sym, 5)

\* if(up) ...; if(low) ...; if(dig) ...; if(sym) ...;
varietyChecks(f) ==
    LET f1 == flagCheck(f, f.up, 2)
        f2 == flagCheck(f1, f1.low, 3)
        f3 == flagCheck(f2, f2.dig, 4)
    IN  flagCheck(f3, f3.sym, 5)

\* the characters the '.' of an ECMAScript regex does not match
lineTerminators == {10, 13}

\* regex_search(pass, regex("(.)\\1{2,}"))
regexRepeat(s) ==
    \E i \in 1..(Len(s) - 2) :
        /\ s[i] \notin lineTerminators
        /\ s[i + 1] = s[i]
        /\ s[i + 2] = s[i]

\* if (regex_search(pass, repeat)) suggestion += "Avoid repeating characters. "; else score++;
repeatCheck(f) ==
    IF regexRepeat(f.pass) THEN [f EXCEPT !.suggestion = @ \o suggestionText[6]]
    ELSE [f EXCEPT !.score = @ + 1]

\* for (auto pattern : weakPatterns)
\*     if (trie.search(pattern) || bruteForceMatch(lowerPass, pattern)
\*         || KMPMatch(lowerPass, pattern)) { hasWeakPattern = true; break; }
\* the outcomes from pattern number i on: "true", "false" (hasWeakPattern) or "crash"
RECURSIVE weakScan(_, _, _)
weakScan(t, lowerPass, i) ==
    IF i > Len(weakPatterns) THEN {"false"}
    ELSE LET pat == weakPatterns[i]
             rest == IF bruteForceMatch(lowerPass, pat) \/ KMPMatch(lowerPass, pat)
                     THEN {"true"}
                     ELSE weakScan(t, lowerPass, i + 1)
         IN  UNION {IF r = "false" THEN rest ELSE {r} : r \in search(t, pat)}

\* if (hasWeakPattern) suggestion += "Remove common weak patterns like '1234'. "; else score++;
weakCheck(f, found) ==
    IF found THEN [f EXCEPT !.hasWeakPattern = TRUE, !.suggestion = @ \o suggestionText[7]]
    ELSE [f EXCEPT !.hasWeakPattern = FALSE, !.score = @ + 1]

\* a classifier whose first threshold is off by one
classify_offByOne(score) ==
    IF score < 3 THEN "Weak" ELSE IF score <= 6 THEN "Moderate" ELSE "Strong"

\* if (score <= 3) strength = "Weak"; else if (score <= 6) strength = "Moderate";
\* else strength = "Strong";
classify(score) ==
    IF score <= 3 THEN "Weak" ELSE IF score <= 6 THEN "Moderate" ELSE "Strong"

(***************************************************************************)
(* The steps of a handler invocation on worker thread w.                   *)
(***************************************************************************)
Workers == 1..NumWorkers

\* "Password required."
passwordRequired ==
    <<80, 97, 115, 115, 119, 111, 114, 100, 32, 114, 101, 113, 117, 105, 114, 101, 100, 46>>

\* passwords: "", "Ab1!", "password", "aaa", "1234", "ADMIN", "Zz9#Zz9#"
pwEmpty == <<>>
pwAb1 == <<65, 98, 49, 33>>
pwPassword == <<112, 97, 115, 115, 119, 111, 114, 100>>
pwAaa == <<97, 97, 97>>
pw1234 == <<49, 50, 51, 52>>
pwADMIN == <<65, 68, 77, 73, 78>>
pwZz9 == <<90, 122, 57, 35, 90, 122, 57, 35>>

\* the password values the requests of a server run carry
ServerPasswords == {pwEmpty, pwAb1}

\* a request: has_param("password") and, when it has one, get_param_value("password")
Requests ==
    {[has |-> FALSE, password |-> pwEmpty]}
        \cup {[has |-> TRUE, password |-> p] : p \in ServerPasswords}

\* the passwords of the analysis runs: up to n pieces, concatenated
Pieces == {pwAb1, pwPassword, pwAaa, pw1234, pwADMIN, pwZz9}

RECURSIVE Concats(_)
Concats(n) ==
    IF n = 0 THEN {pwEmpty}
    ELSE LET shorter == Concats(n - 1)
         IN  shorter \cup {x \o p : x \in shorter, p \in Pieces}

Passwords == Concats(MaxParts)

\* the response body { "strength": "<strength>", "suggestion": "<suggestion>" }, held as
\* the two values the handler embeds, with the request it answers
response(req, strength, suggestion) ==
    [has |-> req.has, password |-> req.password,
     strength |-> strength, suggestion |-> suggestion]

\* server.Post("/analyze", ...) up to the call of analyzePassword: a request without the
\* parameter is answered at once, any other enters analyzePassword(password)
PostAnalyze(w) ==
    /\ ~crashed
    /\ call[w].pc = "idle"
    /\ served < MaxRequests
    /\ served' = served + 1
    /\ \E req \in Requests :
           IF ~req.has
           THEN /\ log' = Append(log, response(req, "N/A", passwordRequired))
                /\ UNCHANGED call
           ELSE /\ call' = [call EXCEPT ![w] = newFrame(call[w], req.password)]
                /\ UNCHANGED log
    /\ UNCHANGED <<crashed, text, pattern, mpc, verdict, tword, tres>>

\* for (auto w : weakPatterns) trie.insert(w);   one iteration
InsertWord(w) ==
    /\ ~crashed
    /\ call[w].pc = "insert"
    /\ LET f == call[w]
           word == weakPatterns[f.k]
       IN  \E o \in insert(f.trie, word) :
               /\ crashed' = o.crash
               /\ call' = [call EXCEPT ![w] =
                              [f EXCEPT !.trie = o.trie,
                                        !.idx = @ \cup walkIndices(word, 1),
                                        !.k = IF o.crash THEN @ ELSE @ + 1,
                                        !.pc = IF ~o.crash /\ f.k = Len(weakPatterns)
                                               THEN "length" ELSE @]]
    /\ UNCHANGED <<served, log, text, pattern, mpc, verdict, tword, tres>>

\* the length check
LengthCheck(w) ==
    /\ ~crashed
    /\ call[w].pc = "length"
    /\ call' = [call EXCEPT ![w] = [lengthCheck(call[w]) EXCEPT !.pc = "variety"]]
    /\ UNCHANGED <<served, log, crashed, text, pattern, mpc, verdict, tword, tres>>

\* the character variety scan and its four checks
CharacterVariety(w) ==
    /\ ~crashed
    /\ call[w].pc = "variety"
    /\ call' = [call EXCEPT ![w] =
                   [varietyChecks(varietyScan(call[w], 1)) EXCEPT !.pc = "repeat"]]
    /\ UNCHANGED <<served, log, crashed, text, pattern, mpc, verdict, tword, tres>>

\* the repeated characters check
RepeatCheck(w) ==
    /\ ~crashed
    /\ call[w].pc = "repeat"
    /\ call' = [call EXCEPT ![w] = [repeatCheck(call[w]) EXCEPT !.pc = "weak"]]
    /\ UNCHANGED <<served, log, crashed, text, pattern, mpc, verdict, tword, tres>>

\* the weak pattern detection: lowerPass, the loop over weakPatterns, the weak check
WeakPatternCheck(w) ==
    /\ ~crashed
    /\ call[w].pc = "weak"
    /\ LET f == call[w]
       IN  \E r \in weakScan(f.trie, toLowerString(f.pass), 1) :
               IF r = "crash"
               THEN /\ crashed' = TRUE
                    /\ UNCHANGED call
               ELSE /\ call' = [call EXCEPT ![w] =
                                   [weakCheck(f, r = "true") EXCEPT
                                       !.idx = @ \cup walkIndices(weakPatterns[1], 1),
                                       !.pc = "classify"]]
                    /\ UNCHANGED crashed
    /\ UNCHANGED <<served, log, text, pattern, mpc, verdict, tword, tres>>

\* the strength classification and return {strength, suggestion}
Classify(w) ==
    /\ ~crashed
    /\ call[w].pc = "classify"
    /\ call' = [call EXCEPT ![w] =
                   [call[w] EXCEPT !.strength = classify(call[w].score), !.pc = "respond"]]
    /\ UNCHANGED <<served, log, crashed, text, pattern, mpc, verdict, tword, tres>>

\* the handler after the call: string json = ...; res.set_content(json, ...)
Respond(w) ==
    /\ ~crashed
    /\ call[w].pc = "respond"
    /\ log' = Append(log, response([has |-> TRUE, password |-> call[w].pass],
                                   call[w].strength, call[w].suggestion))
    /\ call' = [call EXCEPT ![w].pc = "idle"]
    /\ UNCHANGED <<served, crashed, text, pattern, mpc, verdict, tword, tres>>

(***************************************************************************)
(* The server: NumWorkers threads take requests and run the handler.       *)
(***************************************************************************)
NoMatch == [bf |-> FALSE, kmp |-> FALSE, rk |-> FALSE]

Init ==
    /\ call = [w \in Workers |-> IdleFrame]
    /\ served = 0
    /\ log = <<>>
    /\ crashed = FALSE
    /\ text = <<>>
    /\ pattern = <<>>
    /\ mpc = "off"
    /\ verdict = NoMatch
    /\ tword = <<>>
    /\ tres = "none"

Next ==
    \E w \in Workers :
        \/ PostAnalyze(w)
        \/ InsertWord(w)
        \/ LengthCheck(w)
        \/ CharacterVariety(w)
        \/ RepeatCheck(w)
        \/ WeakPatternCheck(w)
        \/ Classify(w)
        \/ Respond(w)

Spec == Init /\ [][Next]_vars

(***************************************************************************)
(* One call of analyzePassword on each password of Passwords.              *)
(***************************************************************************)
InitAnalyze ==
    /\ \E p \in Passwords :
           call = [w \in Workers |-> IF w = 1 THEN newFrame(IdleFrame, p) ELSE IdleFrame]
    /\ served = 1
    /\ log = <<>>
    /\ crashed = FALSE
    /\ text = <<>>
    /\ pattern = <<>>
    /\ mpc = "off"
    /\ verdict = NoMatch
    /\ tword = <<>>
    /\ tres = "none"

NextAnalyze ==
    \/ InsertWord(1)
    \/ LengthCheck(1)
    \/ CharacterVariety(1)
    \/ RepeatCheck(1)
    \/ WeakPatternCheck(1)
    \/ Classify(1)

SpecAnalyze == InitAnalyze /\ [][NextAnalyze]_vars

(***************************************************************************)
(* The three matchers applied to every text and pattern over MatchChars.   *)
(***************************************************************************)
\* tab, 'a', 'n': tab and 'n' have the same residue modulo 101
MatchChars == {9, 97, 110}

InitMatch ==
    /\ text \in StringsUpTo(MatchChars, MaxText)
    /\ pattern \in StringsUpTo(MatchChars, MaxPat)
    /\ mpc = "bf"
    /\ verdict = NoMatch
    /\ call = [w \in Workers |-> IdleFrame]
    /\ served = 0
    /\ log = <<>>
    /\ crashed = FALSE
    /\ tword = <<>>
    /\ tres = "none"

ApplyBruteForce ==
    /\ mpc = "bf"
    /\ verdict' = [verdict EXCEPT !.bf = bruteForceMatch(text, pattern)]
    /\ mpc' = "kmp"
    /\ UNCHANGED <<call, served, log, crashed, text, pattern, tword, tres>>

ApplyKMP ==
    /\ mpc = "kmp"
    /\ verdict' = [verdict EXCEPT !.kmp = KMPMatch(text, pattern)]
    /\ mpc' = "rk"
    /\ UNCHANGED <<call, served, log, crashed, text, pattern, tword, tres>>

ApplyRabinKarp ==
    /\ mpc = "rk"
    /\ verdict' = [verdict EXCEPT !.rk = rabinKarpMatch(text, pattern)]
    /\ mpc' = "done"
    /\ UNCHANGED <<call, served, log, crashed, text, pattern, tword, tres>>

NextMatch == ApplyBruteForce \/ ApplyKMP \/ ApplyRabinKarp

SpecMatch == InitMatch /\ [][NextMatch]_vars

(***************************************************************************)
(* The trie of a call, built by the insert loop, then looked up.           *)
(***************************************************************************)
\* the dictionary tokens
Tokens == {weakPatterns[i] : i \in 1..Len(weakPatterns)}

\* the words looked up: every prefix of a token, and every token with one more character
\* ('5' or 's')
LookupWords ==
    UNION {{SubSeq(t, 1, n) : n \in 0..Len(t)} : t \in Tokens}
        \cup {Append(t, c) : t \in Tokens, c \in {53, 115}}

InitTrie ==
    /\ tword \in LookupWords
    /\ tres = "none"
    /\ call = [w \in Workers |-> IF w = 1 THEN newFrame(IdleFrame, pwEmpty) ELSE IdleFrame]
    /\ served = 1
    /\ log = <<>>
    /\ crashed = FALSE
    /\ text = <<>>
    /\ pattern = <<>>
    /\ mpc = "off"
    /\ verdict = NoMatch

\* trie.search(tword) on the trie the insert loop has built
Lookup ==
    /\ ~crashed
    /\ call[1].pc = "length"
    /\ tres = "none"
    /\ \E r \in search(call[1].trie, tword) :
           /\ tres' = r
           /\ crashed' = (r = "crash")
    /\ UNCHANGED <<call, served, log, text, pattern, mpc, verdict, tword>>

NextTrie == InsertWord(1) \/ Lookup

SpecTrie == InitTrie /\ [][NextTrie]_vars

(***************************************************************************)
(* What the checks are meant to contribute, read off the password.         *)
(***************************************************************************)
\* the lower-cased password holds a dictionary token as a contiguous substring
ContainsToken(p) == \E t \in Tokens : Occurs(toLowerString(p), t)

LengthPoints(p) == IF Len(p) >= 12 THEN 2 ELSE IF Len(p) >= 8 THEN 1 ELSE 0
HasClass(p, S) == \E i \in 1..Len(p) : p[i] \in S
UpperPoints(p) == IF HasClass(p, 65..90) THEN 1 ELSE 0
LowerPoints(p) == IF HasClass(p, 97..122) THEN 1 ELSE 0
DigitPoints(p) == IF HasClass(p, 48..57) THEN 1 ELSE 0
SymbolPoints(p) == IF HasClass(p, (0..127) \ (65..90 \cup 97..122 \cup 48..57)) THEN 1 ELSE 0
RunOfThree(p) == \E i \in 1..(Len(p) - 2) : p[i] = p[i + 1] /\ p[i + 1] = p[i + 2]
RepeatPoints(p) == IF RunOfThree(p) THEN 0 ELSE 1
WeakPoints(f) == IF f.hasWeakPattern THEN 0 ELSE 1

\* the points of the seven checks of a call, in the order of the checks
Contributions(f) ==
    <<LengthPoints(f.pass), UpperPoints(f.pass), LowerPoints(f.pass), DigitPoints(f.pass),
      SymbolPoints(f.pass), RepeatPoints(f.pass), WeakPoints(f)>>

RECURSIVE SumFirst(_, _)
SumFirst(c, n) == IF n = 0 THEN 0 ELSE SumFirst(c, n - 1) + c[n]

\* the suggestions of the first n checks: one for each check without points, in order
RECURSIVE SuggestionsFirst(_, _)
SuggestionsFirst(c, n) ==
    IF n = 0 THEN <<>>
    ELSE SuggestionsFirst(c, n - 1) \o (IF c[n] = 0 THEN suggestionText[n] ELSE <<>>)

\* the number of checks a call has run when it stands at pc
ChecksDone(pc) ==
    CASE pc = "variety" -> 1
      [] pc = "repeat" -> 5
      [] pc = "weak" -> 6
      [] pc \in {"classify", "respond"} -> 7
      [] OTHER -> 0

EndsWith(s, tail) ==
    Len(s) >= Len(tail) /\ SubSeq(s, Len(s) - Len(tail) + 1, Len(s)) = tail

Running(w) == call[w].pc # "idle"
Returned(w) == call[w].pc \in {"classify", "respond"}

(***************************************************************************)
(* The claims.                                                             *)
(***************************************************************************)

\* C1: once the weak-token check of a call has run, it has found a weak pattern, added no
\* point and appended its suggestion exactly when the lower-cased password holds a
\* dictionary token as a substring; otherwise it has added one point and no suggestion.
C1_WeakCheckIsSubstringTest ==
    \A w \in Workers :
        Returned(w) =>
            LET f == call[w]
            IN  /\ f.hasWeakPattern = ContainsToken(f.pass)
                /\ EndsWith(f.suggestion, suggestionText[7]) = ContainsToken(f.pass)
                /\ f.score = SumFirst(Contributions(f), 6)
                               + (IF ContainsToken(f.pass) THEN 0 ELSE 1)

\* C2: KMPMatch and bruteForceMatch return the same verdict on every text and pattern,
\* the empty text and the empty pattern included.
C2_KMPAgreesWithBruteForce ==
    mpc = "done" => verdict.kmp = verdict.bf

\* C3: for a non-empty pattern each of the three matchers returns true exactly when the
\* pattern occurs in the text as a contiguous substring.
C3_MatchersDecideOccurrence ==
    (mpc = "done" /\ pattern # <<>>) =>
        /\ verdict.bf = Occurs(text, pattern)
        /\ verdict.kmp = Occurs(text, pattern)
        /\ verdict.rk = Occurs(text, pattern)

\* a pattern with a border, found in the text but not at its start
C3_Witness ==
    /\ mpc = "done"
    /\ Len(pattern) = 3
    /\ pattern[1] = pattern[2]
    /\ pattern[3] # pattern[1]
    /\ Len(text) = 4
    /\ SubSeq(text, 2, 4) = pattern
    /\ verdict.kmp

\* C4: on the trie built from the dictionary, search(s) returns, and returns true exactly
\* when s is one of the tokens.
C4_SearchIsMembership ==
    tres # "none" => tres = (IF tword \in Tokens THEN "true" ELSE "false")

\* C5: analyzePassword never runs on the empty string, and a request whose password
\* parameter is empty is answered with the strength "N/A".
C5_EmptyPasswordRejected ==
    /\ \A w \in Workers : Running(w) => call[w].pass # <<>>
    /\ \A i \in DOMAIN log :
           (log[i].has /\ log[i].password = <<>>) => log[i].strength = "N/A"

\* C6: the label a call returns is "Weak" exactly when its final score is at most 3,
\* "Moderate" exactly when it is 4, 5 or 6, "Strong" exactly when it is at least 7.
C6_LabelThresholds ==
    \A w \in Workers :
        call[w].pc = "respond" =>
            /\ (call[w].strength = "Weak") = (call[w].score <= 3)
            /\ (call[w].strength = "Moderate") = (call[w].score \in 4..6)
            /\ (call[w].strength = "Strong") = (call[w].score >= 7)

\* a call that returns "Strong" on the lowest score that earns it
C6_Witness ==
    /\ call[1].pc = "respond"
    /\ call[1].score = 7
    /\ call[1].strength = "Strong"

\* C7: at every point of a call the score is the sum of the contributions of the checks
\* run so far (length 0, 1 or 2; each other check 0 or 1) and lies in 0..8.
C7_ScoreIsSumOfChecks ==
    \A w \in Workers :
        Running(w) =>
            LET f == call[w]
                c == Contributions(f)
            IN  /\ f.score \in 0..8
                /\ f.score = SumFirst(c, ChecksDone(f.pc))
                /\ c[1] \in 0..2
                /\ \A n \in 2..7 : c[n] \in 0..1

\* a call about to classify a password that earned both length points
C7_Witness ==
    /\ call[1].pc = "classify"
    /\ LengthPoints(call[1].pass) = 2
    /\ call[1].score >= 6

\* C8: at every point of a call the suggestion text is the concatenation, in the order
\* of the checks, of one suggestion for each check run so far that gave no points, and
\* every suggestion ends in exactly one space.
C8_SuggestionsInCheckOrder ==
    /\ \A n \in 1..7 :
           LET s == suggestionText[n]
           IN  Len(s) >= 2 /\ s[Len(s)] = 32 /\ s[Len(s) - 1] # 32
    /\ \A w \in Workers :
           Running(w) =>
               call[w].suggestion =
                   SuggestionsFirst(Contributions(call[w]), ChecksDone(call[w].pc))

\* a returned call whose lowercase and digit checks both failed and whose uppercase check
\* passed
C8_Witness ==
    /\ call[1].pc = "respond"
    /\ call[1].up
    /\ ~call[1].low
    /\ ~call[1].dig
    /\ Len(call[1].suggestion) > 0

\* C9: any two calls of analyzePassword on the same password return the same label and
\* the same suggestion text, whatever ran before or between them.
C9_SamePasswordSameResult ==
    \A i, j \in DOMAIN log :
        (log[i].has /\ log[j].has /\ log[i].password = log[j].password) =>
            /\ log[i].strength = log[j].strength
            /\ log[i].suggestion = log[j].suggestion

\* a password analysed twice with a call on another password answered in between
C9_Witness ==
    \E i, j, k \in DOMAIN log :
        /\ i < j /\ j < k
        /\ log[i].has /\ log[j].has /\ log[k].has
        /\ log[i].password = log[k].password
        /\ log[j].password # log[i].password

\* C10: every child index Trie::insert and Trie::search compute for the dictionary tokens
\* lies in 0..25.
C10_ChildIndexInBounds ==
    \A w \in Workers : \A i \in call[w].idx : i \in 0..25

====
